---- MODULE Spec2Model ----
(***************************************************************************)
(* Mail lifecycle and delivery scheduling of the mail dashboard backend:   *)
(* the Mail collection (models/Mail.js), the request handlers of           *)
(* controllers/mailController.js, the delivery gateway of config/mailer.js *)
(* and the timer of server.js.                                             *)
(*                                                                         *)
(* Time is counted in minutes.  An optional value (a Date that may be      *)
(* null, an id that may be absent) is a set with at most one element.      *)
(* An address list ("b,x") is the sequence of its comma-separated parts.   *)
(***************************************************************************)
EXTENDS Integers, Sequences, FiniteSets, TLC

\* Bounds of the model.
MaxMails == 2
MaxTime == 1

\* new Date(now.getTime() - 5 * 60000): the scheduler's lookback, in minutes.
Lookback == 5

None == {}
Some(x) == {x}

\* The local accounts (User collection) and their addresses.
Users == {"ua", "ub"}
Email(u) == IF u = "ua" THEN "a" ELSE "b"

\* String.prototype.toLowerCase on the addresses the model uses.
ToLower(s) ==
  CASE s = "A" -> "a"
    [] s = "B" -> "b"
    [] s = "X" -> "x"
    [] OTHER -> s

\* toLowerCase of a comma-separated list lowercases each part.
LowerList(l) == [i \in DOMAIN l |-> ToLower(l[i])]

\* User.findOne({ email }): the accounts whose stored address is exactly email.
FindUser(email) == {u \in Users : Email(u) = email}

ALLOWED_FOLDERS == {"inbox", "sent", "trash", "drafts", "scheduled"}

VARIABLES
  mails,    \* the Mail collection: _id -> document
  nextId,   \* the next _id the store hands out
  now,      \* the wall clock
  config,   \* process.env at startup: [mailer, cronSecret]
  req,      \* the interactive send whose gateway call is in flight
  resp,     \* the last response an interactive handler sent
  tick,     \* per scheduler run: its due documents and its summary
  bound,    \* bounds of the run: [mails, time]
  dispatched, \* _id -> how often deliverMail resolved for it in a scheduler run
  outbox    \* a call of sendMail followed on its own: its request, its POST, its end

vars == <<mails, nextId, now, config, req, resp, tick, bound, dispatched, outbox>>

----------------------------------------------------------------------------
\* The Mail schema: lowercase setters and defaults applied by Mail.create.
MailDoc(d) ==
  [owner |-> d.owner,
   from |-> ToLower(d.from),
   to |-> ToLower(d.to),
   cc |-> LowerList(d.cc),
   bcc |-> LowerList(d.bcc),
   subject |-> d.subject,
   body |-> d.body,
   scheduledAt |-> d.scheduledAt,
   isScheduled |-> d.isScheduled,
   folder |-> d.folder]

\* Mail.create of a sequence of documents, in order, with fresh ids.
Created(store, base, docs) ==
  store @@ [i \in base .. (base + Len(docs) - 1) |-> MailDoc(docs[i - base + 1])]

\* Mail.deleteOne(filter) / Mail.deleteMany(filter): drop the matching ids.
Removed(store, ids) == [i \in (DOMAIN store) \ ids |-> store[i]]

\* (mutants) the comparison reversed; the comparison not strict.
IsFuture_Reversed(scheduledAt, t) == \E s \in scheduledAt : s < t
IsFuture_AtOrAfter(scheduledAt, t) == \E s \in scheduledAt : s >= t

\* const isScheduled = scheduledAt && new Date(scheduledAt) > new Date();
IsFuture(scheduledAt, t) == \E s \in scheduledAt : s > t

\* const recipients = [to]; push(...cc.split(',')); push(...bcc.split(','));
Recipients(to, cc, bcc) == <<to>> \o cc \o bcc

\* The recipients that User.findOne({ email: r.toLowerCase() }) resolves.
LocalRecipients(rcpts) == SelectSeq(rcpts, LAMBDA r : FindUser(ToLower(r)) # {})

\* The inbox document created for recipient r of a message.
InboxCopy(r, from, to, cc, subject, body) ==
  [owner |-> CHOOSE u \in FindUser(ToLower(r)) : TRUE,
   from |-> from,
   to |-> r,
   cc |-> IF r = to THEN cc ELSE <<>>,
   bcc |-> <<>>,
   subject |-> subject,
   body |-> body,
   scheduledAt |-> None,
   isScheduled |-> FALSE,
   folder |-> "inbox"]

\* sendMail's fan-out: one inbox document per recipient with a local account.
SendFanOut(from, to, cc, bcc, subject, body) ==
  LET locals == LocalRecipients(Recipients(to, cc, bcc))
  IN [i \in DOMAIN locals |-> InboxCopy(locals[i], from, to, cc, subject, body)]

\* processScheduledEmails' fan-out: only when the primary recipient is local.
SchedFanOut(m) ==
  IF FindUser(ToLower(m.to)) = {} THEN <<>>
  ELSE LET locals == LocalRecipients(Recipients(m.to, m.cc, m.bcc))
       IN [i \in DOMAIN locals |->
             InboxCopy(locals[i], m.from, m.to, m.cc, m.subject, m.body)]

IdleReq == [pc |-> "idle"]
\* A scheduler run: scheduledMails (each loaded document with its _id), the
\* index of the loop, and the results object.
IdleTick == [pc |-> "idle", docs |-> <<>>, i |-> 1, processed |-> 0, failed |-> 0,
             errors |-> <<>>]

\* What a handler answered: the operation, the HTTP status, the _id of the
\* document in the body, deletedCount, and the scheduler's summary.
Response(op, status, id) ==
  [op |-> op, status |-> status, id |-> id, deleted |-> 0,
   processed |-> 0, failed |-> 0, errors |-> <<>>]

\* Ascending sequence of a finite set of ids: the order the store returns.
RECURSIVE SortedSeq(_)
SortedSeq(S) ==
  IF S = {} THEN <<>>
  ELSE LET m == CHOOSE x \in S : \A y \in S : x <= y
       IN <<m>> \o SortedSeq(S \ {m})

----------------------------------------------------------------------------
\* (mutant) the scheduled document without its isScheduled flag.
ScheduledDoc_Unflagged(u, p) ==
  [owner |-> u, from |-> Email(u), to |-> p.to, cc |-> p.cc, bcc |-> p.bcc,
   subject |-> p.subject, body |-> p.body,
   scheduledAt |-> p.scheduledAt, isScheduled |-> FALSE, folder |-> "scheduled"]

\* sendMail: the document of the scheduled path (Mail.create, lines 92-105).
ScheduledDoc(u, p) ==
  [owner |-> u, from |-> Email(u), to |-> p.to, cc |-> p.cc, bcc |-> p.bcc,
   subject |-> p.subject, body |-> p.body,
   scheduledAt |-> p.scheduledAt, isScheduled |-> TRUE, folder |-> "scheduled"]

\* sendMail: the sender's copy of the immediate path (Mail.create, lines 143-154).
SentDoc(u, p) ==
  [owner |-> u, from |-> Email(u), to |-> p.to, cc |-> p.cc, bcc |-> p.bcc,
   subject |-> p.subject, body |-> p.body,
   scheduledAt |-> None, isScheduled |-> FALSE, folder |-> "sent"]

\* Mail.deleteOne({ _id: draftId, owner }) of the scheduled path.
ScheduledDraftFilter(store, u, draftId) ==
  {i \in draftId : i \in DOMAIN store /\ store[i].owner = u}

\* (mutant) a filter that matches no draft.
SentDraftFilter_NoMatch(store, u, draftId) ==
  {i \in draftId : i \in DOMAIN store /\ store[i].owner = u
                   /\ store[i].folder = "draft"}

\* Mail.deleteOne({ _id: draftId, owner, folder: 'drafts' }) of the immediate path.
SentDraftFilter(store, u, draftId) ==
  {i \in draftId : i \in DOMAIN store /\ store[i].owner = u
                   /\ store[i].folder = "drafts"}

\* (mutant) sendMail without the check of isMailerConfigured.
SendMail_NoConfigCheck(u, p) ==
  /\ req.pc = "idle"
  /\ IF p.to = "" THEN
       /\ resp' = Response("send", 400, None)
       /\ UNCHANGED <<mails, nextId, req>>
     ELSE IF IsFuture(p.scheduledAt, now) THEN
       /\ nextId <= bound.mails
       /\ mails' = LET made == Created(mails, nextId, <<ScheduledDoc(u, p)>>)
                   IN Removed(made, ScheduledDraftFilter(made, u, p.draftId))
       /\ nextId' = nextId + 1
       /\ resp' = Response("send", 201, Some(nextId))
       /\ UNCHANGED req
     ELSE
       /\ req' = [pc |-> "delivering", user |-> u, to |-> p.to, cc |-> p.cc,
                  bcc |-> p.bcc, subject |-> p.subject, body |-> p.body,
                  scheduledAt |-> p.scheduledAt, draftId |-> p.draftId]
       /\ UNCHANGED <<mails, nextId, resp>>
  /\ UNCHANGED <<now, config, tick, bound, dispatched, outbox>>

\* (mutant) sendMail without the check of the recipient.
SendMail_NoRecipientCheck(u, p) ==
  /\ req.pc = "idle"
  /\ IF ~config.mailer THEN
       /\ resp' = Response("send", 500, None)
       /\ UNCHANGED <<mails, nextId, req>>
     ELSE IF IsFuture(p.scheduledAt, now) THEN
       /\ nextId <= bound.mails
       /\ mails' = LET made == Created(mails, nextId, <<ScheduledDoc(u, p)>>)
                   IN Removed(made, ScheduledDraftFilter(made, u, p.draftId))
       /\ nextId' = nextId + 1
       /\ resp' = Response("send", 201, Some(nextId))
       /\ UNCHANGED req
     ELSE
       /\ req' = [pc |-> "delivering", user |-> u, to |-> p.to, cc |-> p.cc,
                  bcc |-> p.bcc, subject |-> p.subject, body |-> p.body,
                  scheduledAt |-> p.scheduledAt, draftId |-> p.draftId]
       /\ UNCHANGED <<mails, nextId, resp>>
  /\ UNCHANGED <<now, config, tick, bound, dispatched, outbox>>

\* sendMail up to its first wait: validation, the schedule decision, and on
\* the scheduled path the whole request; on the immediate path the gateway
\* call is started and the handler waits for it.
SendMail(u, p) ==
  /\ req.pc = "idle"
  /\ IF p.to = "" THEN
       /\ resp' = Response("send", 400, None)
       /\ UNCHANGED <<mails, nextId, req>>
     ELSE IF ~config.mailer THEN
       /\ resp' = Response("send", 500, None)
       /\ UNCHANGED <<mails, nextId, req>>
     ELSE IF IsFuture(p.scheduledAt, now) THEN
       /\ nextId <= bound.mails
       /\ mails' = LET made == Created(mails, nextId, <<ScheduledDoc(u, p)>>)
                   IN Removed(made, ScheduledDraftFilter(made, u, p.draftId))
       /\ nextId' = nextId + 1
       /\ resp' = Response("send", 201, Some(nextId))
       /\ UNCHANGED req
     ELSE
       /\ req' = [pc |-> "delivering", user |-> u, to |-> p.to, cc |-> p.cc,
                  bcc |-> p.bcc, subject |-> p.subject, body |-> p.body,
                  scheduledAt |-> p.scheduledAt, draftId |-> p.draftId]
       /\ UNCHANGED <<mails, nextId, resp>>
  /\ UNCHANGED <<now, config, tick, bound, dispatched, outbox>>

\* sendMail after deliverMail resolved: the sent copy, the fan-out, the draft.
SendDelivered ==
  /\ req.pc = "delivering"
  /\ LET u == req.user
         docs == <<SentDoc(u, req)>>
                 \o SendFanOut(Email(u), req.to, req.cc, req.bcc,
                               req.subject, req.body)
         made == Created(mails, nextId, docs)
     IN /\ nextId + Len(docs) - 1 <= bound.mails
        /\ mails' = Removed(made, SentDraftFilter(made, u, req.draftId))
        /\ nextId' = nextId + Len(docs)
        /\ resp' = Response("send", 201, Some(nextId))
  /\ req' = IdleReq
  /\ UNCHANGED <<now, config, tick, bound, dispatched, outbox>>

\* (mutant) the sender's copy is stored although the delivery failed.
SendRejected_StoresSent ==
  /\ req.pc = "delivering"
  /\ nextId <= bound.mails
  /\ mails' = Created(mails, nextId, <<SentDoc(req.user, req)>>)
  /\ nextId' = nextId + 1
  /\ resp' = Response("send", 502, None)
  /\ req' = IdleReq
  /\ UNCHANGED <<now, config, tick, bound, dispatched, outbox>>

\* sendMail after deliverMail threw: 502, nothing written.
SendRejected ==
  /\ req.pc = "delivering"
  /\ resp' = Response("send", 502, None)
  /\ req' = IdleReq
  /\ UNCHANGED <<mails, nextId, now, config, tick, bound, dispatched, outbox>>

\* (mutant) a lookup by _id alone.
GetMailById_AnyOwner(u, id) ==
  /\ resp' = IF id \in DOMAIN mails THEN Response("getMail", 200, Some(id))
             ELSE Response("getMail", 404, None)
  /\ UNCHANGED <<mails, nextId, now, config, req, tick, bound, dispatched, outbox>>

\* getMailById: Mail.findOne({ _id, owner }); 404 when nothing matches, else
\* the document.
GetMailById(u, id) ==
  /\ resp' = IF id \in DOMAIN mails /\ mails[id].owner = u
             THEN Response("getMail", 200, Some(id))
             ELSE Response("getMail", 404, None)
  /\ UNCHANGED <<mails, nextId, now, config, req, tick, bound, dispatched, outbox>>

\* saveDraft's payload (lines 202-218).
DraftPayload(u, p) ==
  [owner |-> u, from |-> Email(u), to |-> p.to, cc |-> p.cc, bcc |-> p.bcc,
   subject |-> p.subject, body |-> p.body, folder |-> "drafts",
   scheduledAt |-> p.scheduledAt, isScheduled |-> p.scheduledAt # None]

\* (mutant) an update that leaves the stored from as it is.
DraftUpdate_KeepsFrom(old, u, p) ==
  LET d == [MailDoc(DraftPayload(u, p)) EXCEPT !.from = old.from]
  IN IF p.scheduledAt = None
     THEN [d EXCEPT !.scheduledAt = old.scheduledAt, !.isScheduled = old.isScheduled]
     ELSE d

\* Mail.findOneAndUpdate(filter, payload): $set of the payload's keys; a
\* payload without scheduledAt leaves scheduledAt and isScheduled as stored.
DraftUpdate(old, u, p) ==
  LET d == MailDoc(DraftPayload(u, p))
  IN IF p.scheduledAt = None
     THEN [d EXCEPT !.scheduledAt = old.scheduledAt, !.isScheduled = old.isScheduled]
     ELSE d

\* (mutant) an upsert that creates the draft when the id matches nothing.
SaveDraft_Upserts(u, p) ==
  /\ IF \E i \in p.id : i \in DOMAIN mails /\ mails[i].owner = u THEN
       /\ mails' = [i \in DOMAIN mails |->
                      IF i \in p.id THEN DraftUpdate(mails[i], u, p) ELSE mails[i]]
       /\ resp' = Response("saveDraft", 200, p.id)
       /\ UNCHANGED nextId
     ELSE
       /\ nextId <= bound.mails
       /\ mails' = Created(mails, nextId, <<DraftPayload(u, p)>>)
       /\ nextId' = nextId + 1
       /\ resp' = Response("saveDraft", 201, Some(nextId))
  /\ UNCHANGED <<now, config, req, tick, bound, dispatched, outbox>>

\* (mutant) the update matched by id alone, without the owner.
SaveDraft_AnyOwner(u, p) ==
  /\ IF p.id = None THEN
       /\ nextId <= bound.mails
       /\ mails' = Created(mails, nextId, <<DraftPayload(u, p)>>)
       /\ nextId' = nextId + 1
       /\ resp' = Response("saveDraft", 201, Some(nextId))
     ELSE IF \E i \in p.id : i \in DOMAIN mails THEN
       /\ mails' = [i \in DOMAIN mails |->
                      IF i \in p.id THEN DraftUpdate(mails[i], u, p) ELSE mails[i]]
       /\ resp' = Response("saveDraft", 200, p.id)
       /\ UNCHANGED nextId
     ELSE
       /\ resp' = Response("saveDraft", 404, None)
       /\ UNCHANGED <<mails, nextId>>
  /\ UNCHANGED <<now, config, req, tick, bound, dispatched, outbox>>

\* saveDraft: create without id, else findOneAndUpdate by id and owner.
SaveDraft(u, p) ==
  /\ IF p.id = None THEN
       /\ nextId <= bound.mails
       /\ mails' = Created(mails, nextId, <<DraftPayload(u, p)>>)
       /\ nextId' = nextId + 1
       /\ resp' = Response("saveDraft", 201, Some(nextId))
     ELSE IF \E i \in p.id : i \in DOMAIN mails /\ mails[i].owner = u THEN
       /\ mails' = [i \in DOMAIN mails |->
                      IF i \in p.id THEN DraftUpdate(mails[i], u, p) ELSE mails[i]]
       /\ resp' = Response("saveDraft", 200, p.id)
       /\ UNCHANGED nextId
     ELSE
       /\ resp' = Response("saveDraft", 404, None)
       /\ UNCHANGED <<mails, nextId>>
  /\ UNCHANGED <<now, config, req, tick, bound, dispatched, outbox>>

\* (mutant) the filter { _id: id }, without the owner.
Owned_AnyOwner(store, u, id) == id \in DOMAIN store

\* The documents matching { _id: id, owner: u }.
Owned(store, u, id) == id \in DOMAIN store /\ store[id].owner = u

\* (mutant) a delete that does not find a document already in trash.
DeleteMail_NotFromTrash(u, id) ==
  /\ IF Owned(mails, u, id) /\ mails[id].folder # "trash" THEN
       /\ mails' = [mails EXCEPT ![id].folder = "trash"]
       /\ resp' = Response("delete", 200, Some(id))
     ELSE
       /\ resp' = Response("delete", 404, None)
       /\ UNCHANGED mails
  /\ UNCHANGED <<nextId, now, config, req, tick, bound, dispatched, outbox>>

\* deleteMail: findOneAndUpdate({ _id, owner }, { folder: 'trash' }).
DeleteMail(u, id) ==
  /\ IF Owned(mails, u, id) THEN
       /\ mails' = [mails EXCEPT ![id].folder = "trash"]
       /\ resp' = Response("delete", 200, Some(id))
     ELSE
       /\ resp' = Response("delete", 404, None)
       /\ UNCHANGED mails
  /\ UNCHANGED <<nextId, now, config, req, tick, bound, dispatched, outbox>>

\* (mutant) the target taken from the body without validation.
TargetFolder_NotValidated(folder) ==
  IF folder = {} THEN "inbox" ELSE CHOOSE f \in folder : TRUE

\* const targetFolder = ALLOWED_FOLDERS.includes(folder) ? folder : 'inbox';
\* folder is the body's value, absent (None) meaning the default 'inbox'.
TargetFolder(folder) ==
  IF \E f \in folder : f \in ALLOWED_FOLDERS
  THEN CHOOSE f \in folder : TRUE
  ELSE "inbox"

RestoreMail(u, id, folder) ==
  /\ IF Owned(mails, u, id) /\ mails[id].folder = "trash" THEN
       /\ mails' = [mails EXCEPT ![id].folder = TargetFolder(folder)]
       /\ resp' = Response("restore", 200, Some(id))
     ELSE
       /\ resp' = Response("restore", 404, None)
       /\ UNCHANGED mails
  /\ UNCHANGED <<nextId, now, config, req, tick, bound, dispatched, outbox>>

\* (mutant) a filter that forgets the folder.
TrashOf_AnyFolder(store, u) == {i \in DOMAIN store : store[i].owner = u}

\* (mutant) a filter that forgets the owner.
TrashOf_AnyOwner(store, u) == {i \in DOMAIN store : store[i].folder = "trash"}

\* Mail.deleteMany({ owner, folder: 'trash' }); the response carries deletedCount.
TrashOf(store, u) ==
  {i \in DOMAIN store : store[i].owner = u /\ store[i].folder = "trash"}

EmptyTrash(u) ==
  /\ mails' = Removed(mails, TrashOf(mails, u))
  /\ resp' = [Response("emptyTrash", 200, None) EXCEPT
                !.deleted = Cardinality(TrashOf(mails, u))]
  /\ UNCHANGED <<nextId, now, config, req, tick, bound, dispatched, outbox>>

----------------------------------------------------------------------------
\* The due query of processScheduledEmails at time t (lines 313-317).
\* (mutant) the query without its upper bound on scheduledAt.
DueIds_NoUpperBound(store, t) ==
  {i \in DOMAIN store :
     /\ store[i].isScheduled
     /\ \E s \in store[i].scheduledAt : s >= t - Lookback
     /\ store[i].folder = "scheduled"}

\* (mutant) the query without its lower bound on scheduledAt.
DueIds_NoLowerBound(store, t) ==
  {i \in DOMAIN store :
     /\ store[i].isScheduled
     /\ \E s \in store[i].scheduledAt : s <= t
     /\ store[i].folder = "scheduled"}

\* (mutant) the query without its condition on the folder.
DueIds_AnyFolder(store, t) ==
  {i \in DOMAIN store :
     /\ store[i].isScheduled
     /\ \E s \in store[i].scheduledAt : s <= t /\ s >= t - Lookback}

\* (mutant) the query with no condition.
DueIds_Everything(store, t) == DOMAIN store

DueIds(store, t) ==
  {i \in DOMAIN store :
     /\ store[i].isScheduled
     /\ \E s \in store[i].scheduledAt : s <= t /\ s >= t - Lookback
     /\ store[i].folder = "scheduled"}

\* const cronSecret = req.headers['x-cron-secret'] || req.body.secret;
\* "none" is a header or a body field that is not there.
CronSecret(header, body) == IF header # "none" THEN header ELSE body

\* (mutant) the secret is required whether or not one is configured.
Unauthorized_Always(secret) == secret # "good"

\* The secret check: process.env.CRON_SECRET && cronSecret !== CRON_SECRET.
Unauthorized(secret) == config.cronSecret /\ secret # "good"

\* res.json({ message, ...results }) of a run with the summary t.
Summary(t) ==
  [Response("processScheduled", 200, None) EXCEPT
     !.processed = t.processed, !.failed = t.failed, !.errors = t.errors]

\* processScheduledEmails up to its query: the run r keeps the documents the
\* query returned; with nothing due it answers at once.
TickStart(r, secret) ==
  /\ tick[r].pc = "idle"
  /\ IF Unauthorized(secret) THEN
       /\ resp' = Response("processScheduled", 401, None)
       /\ UNCHANGED tick
     ELSE
       LET due == SortedSeq(DueIds(mails, now))
           docs == [k \in DOMAIN due |-> [id |-> due[k], doc |-> mails[due[k]]]]
       IN IF docs = <<>> THEN
            /\ resp' = Summary(IdleTick)
            /\ UNCHANGED tick
          ELSE
            /\ tick' = [tick EXCEPT ![r] = [IdleTick EXCEPT !.pc = "loop",
                                                            !.docs = docs]]
            /\ UNCHANGED resp
  /\ UNCHANGED <<mails, nextId, now, config, req, bound, dispatched, outbox>>

\* The catch block of the loop (lines 372-379) for the error e.
TickCaught(t, e) ==
  [t EXCEPT !.failed = @ + 1,
            !.errors = Append(@, [mailId |-> t.docs[t.i].id, error |-> e])]

\* The end of one iteration of the for loop of run r whose results are t: the
\* next document, or res.json with the summary.
TickAdvance(r, t) ==
  IF t.i = Len(t.docs) THEN
    /\ tick' = [tick EXCEPT ![r] = IdleTick]
    /\ resp' = Summary(t)
  ELSE
    /\ tick' = [tick EXCEPT ![r] = [t EXCEPT !.i = @ + 1]]
    /\ UNCHANGED resp

\* (mutant) the save that leaves scheduledAt as it was.
MarkSent_KeepsDate(store, id) ==
  [store EXCEPT ![id].folder = "sent", ![id].isScheduled = FALSE]

\* The document the loop of run r is at.
Attempted(r) == tick[r].docs[tick[r].i].id

\* deliverMail resolved for the document id: the provider accepted the message.
Accepted(log, id) ==
  IF id \in DOMAIN log THEN [log EXCEPT ![id] = @ + 1] ELSE log @@ (id :> 1)

\* mail.save() of the loaded document: $set of the three modified paths.
MarkSent(store, id) ==
  [store EXCEPT ![id].folder = "sent", ![id].isScheduled = FALSE,
                ![id].scheduledAt = None]

\* One iteration whose deliverMail resolved: save, fan-out, processed++.  A
\* save of a document that is no longer stored throws and is caught.
TickDelivered(r) ==
  /\ tick[r].pc = "loop"
  /\ config.mailer
  /\ LET m == tick[r].docs[tick[r].i]
         copies == SchedFanOut(m.doc)
     IN IF m.id \in DOMAIN mails THEN
          /\ nextId + Len(copies) - 1 <= bound.mails
          /\ mails' = Created(MarkSent(mails, m.id), nextId, copies)
          /\ nextId' = nextId + Len(copies)
          /\ TickAdvance(r, [tick[r] EXCEPT !.processed = @ + 1])
        ELSE
          /\ TickAdvance(r, TickCaught(tick[r], "notfound"))
          /\ UNCHANGED <<mails, nextId>>
  /\ dispatched' = Accepted(dispatched, Attempted(r))
  /\ UNCHANGED <<now, config, req, bound, outbox>>

\* What deliverMail throws: the configuration error, or the Error made of
\* the provider's answer or of the failed request.
Rejections ==
  IF config.mailer THEN {"http4xx", "http5xx", "network"} ELSE {"unconfigured"}

\* (mutant) the run that ends at the first delivery that throws.
TickRejected_Aborts(r) ==
  /\ tick[r].pc = "loop"
  /\ \E e \in Rejections :
       /\ tick' = [tick EXCEPT ![r] = IdleTick]
       /\ resp' = Summary(TickCaught(tick[r], e))
  /\ UNCHANGED <<mails, nextId, now, config, req, bound, dispatched, outbox>>

\* One iteration whose deliverMail threw (provider error, or not configured).
TickRejected(r) ==
  /\ tick[r].pc = "loop"
  /\ \E e \in Rejections : TickAdvance(r, TickCaught(tick[r], e))
  /\ UNCHANGED <<mails, nextId, now, config, req, bound, dispatched, outbox>>

\* The wall clock moves on.
Advance ==
  /\ now < bound.time
  /\ now' = now + 1
  /\ UNCHANGED <<mails, nextId, config, req, resp, tick, bound, dispatched, outbox>>

----------------------------------------------------------------------------
\* config/mailer.js: sendMail(options), the gateway the handlers call as
\* deliverMail.

\* Bound of the mailer's requests.
MaxAttachments == 2

\* process.env.MAILJET_FROM, here a verified sender v with the name M.
FromDefault == "M <v>"

\* match(/^(.+?)\s*<(.+?)>$|^(.+)$/): a name and an address, or an address.
ParseAddress(s) ==
  CASE s = "M <v>" -> [name |-> Some("M"), email |-> "v"]
    [] s = "N <a>" -> [name |-> Some("N"), email |-> "a"]
    [] OTHER -> [name |-> None, email |-> s]

\* verifiedFromEmail, verifiedFromName (lines 107-118).
VerifiedFrom ==
  LET m == ParseAddress(FromDefault)
  IN [Email |-> m.email,
      Name |-> IF m.name = None THEN "Modern Mail" ELSE CHOOSE n \in m.name : TRUE]

\* replyToEmail, replyToName of options.userFrom || options.from (121-135),
\* as the ReplyTo of the payload (253-258); absent when neither is given.
ReplyTo(o) ==
  LET desired == IF o.userFrom # None THEN o.userFrom ELSE o.from
  IN {[Email |-> ParseAddress(d).email,
       Name |-> IF ParseAddress(d).name = None THEN ParseAddress(d).email
                ELSE CHOOSE n \in ParseAddress(d).name : TRUE] : d \in desired}

\* One attachment after fetch(attachment.url): a fetch that rejects gives
\* null; a fetch that resolves, with whatever status, gives the body read.
Fetched(name, outcome) ==
  CASE outcome = "rejects" -> None
    [] outcome = "status404" -> Some([Filename |-> name, Content |-> "errorbody"])
    [] OTHER -> Some([Filename |-> name, Content |-> "file"])

\* validAttachments: the fetched attachments that are not null, in order.
RECURSIVE ValidAttachments(_, _)
ValidAttachments(names, outcomes) ==
  IF names = <<>> THEN <<>>
  ELSE LET got == Fetched(Head(names), Head(outcomes))
       IN (IF got = None THEN <<>> ELSE <<CHOOSE a \in got : TRUE>>)
          \o ValidAttachments(Tail(names), Tail(outcomes))

\* (mutant) the payload sent under the user's address when one is given.
Payload_FromUser(o, outcomes) ==
  [From |-> IF ReplyTo(o) = {} THEN VerifiedFrom ELSE CHOOSE x \in ReplyTo(o) : TRUE,
   To |-> o.to, Cc |-> o.cc, Bcc |-> o.bcc,
   Subject |-> IF o.subject = "" THEN "(No Subject)" ELSE o.subject,
   ReplyTo |-> ReplyTo(o),
   Attachments |-> ValidAttachments(o.attachments, outcomes)]

\* The provider message (lines 223-290).
Payload(o, outcomes) ==
  [From |-> VerifiedFrom,
   To |-> o.to, Cc |-> o.cc, Bcc |-> o.bcc,
   Subject |-> IF o.subject = "" THEN "(No Subject)" ELSE o.subject,
   ReplyTo |-> ReplyTo(o),
   Attachments |-> ValidAttachments(o.attachments, outcomes)]

\* What the POST to the provider ends with: a 2xx response, a 4xx or 5xx
\* response, or a fetch that rejects (network, timeout).
ProviderResponses == {"ok", "http4xx", "http5xx", "network"}

\* No call of the mailer yet.
IdleOutbox ==
  [options |-> None, fetches |-> <<>>, posts |-> 0, message |-> None,
   outcome |-> "none", error |-> None]

\* sendMail(options) with the attachments' fetches ending as in outcomes and
\* the provider answering response: the configuration error before anything
\* else, else one POST, resolved when response.ok and thrown as a plain
\* Error otherwise.
Deliver(o, outcomes, response) ==
  /\ outbox' =
       IF ~config.mailer
       THEN [options |-> Some(o), fetches |-> <<>>, posts |-> 0, message |-> None,
             outcome |-> "threw", error |-> Some("unconfigured")]
       ELSE [options |-> Some(o), fetches |-> outcomes, posts |-> 1,
             message |-> Some(Payload(o, outcomes)),
             outcome |-> IF response = "ok" THEN "resolved" ELSE "threw",
             error |-> IF response = "ok" THEN None ELSE Some(response)]
  /\ UNCHANGED <<mails, nextId, now, config, req, resp, tick, bound, dispatched>>

----------------------------------------------------------------------------
\* The inputs of the requests.
Runners == {"timer"}
\* The ids a client can name: those the store has handed out, and 0, which
\* no document has.
Ids == 0 .. (nextId - 1)
OptIds == {None} \cup {Some(i) : i \in Ids}
Dates(t) == {None, Some(t - 1), Some(t), Some(t + 1)}
FolderInputs == {None} \cup {Some(f) : f \in ALLOWED_FOLDERS \cup {"spam"}}

\* The state after startup, for a run within the bounds b.
InitWith(b) ==
  /\ mails = <<>>
  /\ nextId = 1
  /\ now = 0
  /\ config \in [mailer : BOOLEAN, cronSecret : {FALSE}]
  /\ req = IdleReq
  /\ resp = Response("none", 0, None)
  /\ tick = [r \in Runners |-> IdleTick]
  /\ bound = b
  /\ dispatched = <<>>
  /\ outbox = IdleOutbox

\* No handler is waiting: no send is in flight and no run is in its loop.
Quiet == req.pc = "idle" /\ \A r \in DOMAIN tick : tick[r].pc = "idle"

----------------------------------------------------------------------------
\* The mail lifecycle: every handler, one at a time, for the account ua.
SendInputs(t) ==
  [to : {"b"}, cc : {<<>>}, bcc : {<<>>}, subject : {"s1"},
   body : {"b1"}, scheduledAt : {None, Some(t + 1)}, draftId : OptIds]
DraftInputs(t) ==
  [id : OptIds, to : {"b"}, cc : {<<>>}, bcc : {<<>>}, subject : {"s1"},
   body : {"b1"}, scheduledAt : {None, Some(t + 1)}]

Init == InitWith([mails |-> MaxMails, time |-> MaxTime])

Next ==
  \/ Quiet /\ \E p \in SendInputs(now) : SendMail("ua", p)
  \/ SendDelivered
  \/ SendRejected
  \/ Quiet /\ \E p \in DraftInputs(now) : SaveDraft("ua", p)
  \/ Quiet /\ \E id \in Ids : DeleteMail("ua", id)
  \/ Quiet /\ \E id \in Ids, f \in FolderInputs : RestoreMail("ua", id, f)
  \/ Quiet /\ EmptyTrash("ua")
  \/ Quiet /\ \E r \in Runners : TickStart(r, "none")
  \/ \E r \in Runners : TickDelivered(r)
  \/ \E r \in Runners : TickRejected(r)
  \/ Quiet /\ Advance

Spec == Init /\ [][Next]_vars

----------------------------------------------------------------------------
\* Sending and drafting: sends of ua around the schedule boundary, with and
\* without a draft, while drafts are saved.
SendMails == 2
BoundarySends(t) ==
  [to : {"b", "x"}, cc : {<<>>}, bcc : {<<>>}, subject : {"s1"},
   body : {"b1"}, scheduledAt : Dates(t), draftId : OptIds]
BoundaryDrafts ==
  [id : OptIds, to : {"b"}, cc : {<<>>}, bcc : {<<>>}, subject : {"s1", "s2"},
   body : {"b1"}, scheduledAt : {None}]

InitSend == InitWith([mails |-> SendMails, time |-> MaxTime])

NextSend ==
  \/ \E p \in BoundarySends(now) : SendMail("ua", p)
  \/ SendDelivered
  \/ SendRejected
  \/ \E p \in BoundaryDrafts : SaveDraft("ua", p)
  \/ Advance

SpecSend == InitSend /\ [][NextSend]_vars

----------------------------------------------------------------------------
\* Fan-out: one send of ua from the empty store, over address lists with
\* local, unknown, repeated and upper-case addresses.
FanMails == 4
FanCc == {<<>>} \cup {<<x>> : x \in {"a", "b", "x", "B"}}
        \cup {<<x, y>> : x \in {"a", "b", "x", "B"}, y \in {"a", "b", "x"}}
FanSends ==
  [to : {"a", "b", "x", "A"}, cc : FanCc, bcc : {<<>>, <<"b">>, <<"x">>},
   subject : {"s1"}, body : {"b1"}, scheduledAt : {None}, draftId : {None}]

InitFan == InitWith([mails |-> FanMails, time |-> MaxTime])

NextFan ==
  \/ mails = <<>> /\ \E p \in FanSends : SendMail("ua", p)
  \/ SendDelivered
  \/ SendRejected

SpecFan == InitFan /\ [][NextFan]_vars

----------------------------------------------------------------------------
\* Scheduling: ua schedules mail, the clock moves, the timer runs.
SchedMails == 3
SchedSends(t) ==
  [to : {"b", "x"}, cc : {<<>>}, bcc : {<<>>}, subject : {"s1"},
   body : {"b1"}, scheduledAt : {Some(t + 1)}, draftId : {None}]

InitSched == InitWith([mails |-> SchedMails, time |-> MaxTime])

NextSched ==
  \/ \E p \in SchedSends(now) : SendMail("ua", p)
  \/ \E r \in Runners : TickStart(r, "none")
  \/ \E r \in Runners : TickDelivered(r)
  \/ \E r \in Runners : TickRejected(r)
  \/ Advance

SpecSched == InitSched /\ [][NextSched]_vars

----------------------------------------------------------------------------
\* Dispatch beside user requests: ua schedules mail, and trashes it and
\* empties the trash while the timer's run is under way.
RaceMails == 3
RaceSends(t) ==
  [to : {"b"}, cc : {<<>>}, bcc : {<<>>}, subject : {"s1"},
   body : {"b1"}, scheduledAt : {Some(t + 1)}, draftId : {None}]

InitRace == InitWith([mails |-> RaceMails, time |-> MaxTime])

NextRace ==
  \/ \E p \in RaceSends(now) : SendMail("ua", p)
  \/ \E id \in Ids : DeleteMail("ua", id)
  \/ EmptyTrash("ua")
  \/ \E r \in Runners : TickStart(r, "none")
  \/ \E r \in Runners : TickDelivered(r)
  \/ \E r \in Runners : TickRejected(r)
  \/ Advance

SpecRace == InitRace /\ [][NextRace]_vars

----------------------------------------------------------------------------
\* Folders: ua writes to itself, now or later, saves drafts, and trashes and
\* restores what it owns.
FolderMails == 2
FolderSends(t) ==
  [to : {"a"}, cc : {<<>>}, bcc : {<<>>}, subject : {"s1"},
   body : {"b1"}, scheduledAt : {None, Some(t + 1)}, draftId : {None}]
FolderDrafts ==
  [id : {None}, to : {"b"}, cc : {<<>>}, bcc : {<<>>}, subject : {"s1"},
   body : {"b1"}, scheduledAt : {None}]

InitFolders == InitWith([mails |-> FolderMails, time |-> MaxTime])

NextFolders ==
  \/ \E p \in FolderSends(now) : SendMail("ua", p)
  \/ SendDelivered
  \/ SendRejected
  \/ \E p \in FolderDrafts : SaveDraft("ua", p)
  \/ \E id \in Ids : DeleteMail("ua", id)
  \/ \E id \in Ids, f \in FolderInputs : RestoreMail("ua", id, f)

SpecFolders == InitFolders /\ [][NextFolders]_vars

----------------------------------------------------------------------------
\* Owners: ua and ub save drafts and read, trash, restore, overwrite and
\* empty by ids of their own and of the other.
OwnerMails == 2
OwnerDrafts ==
  [id : OptIds, to : {"b"}, cc : {<<>>}, bcc : {<<>>}, subject : {"s1", "s2"},
   body : {"b1"}, scheduledAt : {None}]

OwnerFolders == {None, Some("sent")}

InitOwners == InitWith([mails |-> OwnerMails, time |-> MaxTime]) /\ config.mailer

NextOwners ==
  \/ \E u \in Users, p \in OwnerDrafts : SaveDraft(u, p)
  \/ \E u \in Users, id \in Ids : GetMailById(u, id)
  \/ \E u \in Users, id \in Ids : DeleteMail(u, id)
  \/ \E u \in Users, id \in Ids, f \in OwnerFolders : RestoreMail(u, id, f)
  \/ \E u \in Users : EmptyTrash(u)

SpecOwners == InitOwners /\ [][NextOwners]_vars

----------------------------------------------------------------------------
\* The dispatch endpoint: with and without CRON_SECRET, the timer calls
\* processScheduledEmails with empty headers and body, and POST
\* /process-scheduled arrives with any header and body secret.
CronMails == 2
Callers == {"timer", "http"}
Secrets == {"none", "bad", "good"}
CronSends(t) ==
  [to : {"x"}, cc : {<<>>}, bcc : {<<>>}, subject : {"s1"},
   body : {"b1"}, scheduledAt : {Some(t + 1)}, draftId : {None}]

InitCron ==
  /\ mails = <<>>
  /\ nextId = 1
  /\ now = 0
  /\ config \in [mailer : {TRUE}, cronSecret : BOOLEAN]
  /\ req = IdleReq
  /\ resp = Response("none", 0, None)
  /\ tick = [r \in Callers |-> IdleTick]
  /\ bound = [mails |-> CronMails, time |-> MaxTime]
  /\ dispatched = <<>>
  /\ outbox = IdleOutbox

NextCron ==
  \/ \E p \in CronSends(now) : SendMail("ua", p)
  \/ TickStart("timer", CronSecret("none", "none"))
  \/ \E h \in Secrets, b \in Secrets : TickStart("http", CronSecret(h, b))
  \/ \E r \in Callers : TickDelivered(r)
  \/ \E r \in Callers : TickRejected(r)
  \/ Advance

SpecCron == InitCron /\ [][NextCron]_vars

----------------------------------------------------------------------------
\* Rejected requests: with and without a configured provider ua sends with
\* and without a recipient, now and later, and drafts, trashes and restores
\* into folder scheduled what the timer then finds due.
ConfigMails == 2
ConfigSends(t) ==
  [to : {"", "x"}, cc : {<<>>}, bcc : {<<>>}, subject : {"s1"},
   body : {"b1"}, scheduledAt : {None, Some(t), Some(t + 1)}, draftId : OptIds]
ConfigDrafts(t) ==
  [id : {None}, to : {"x"}, cc : {<<>>}, bcc : {<<>>}, subject : {"s1"},
   body : {"b1"}, scheduledAt : {Some(t + 1)}]

InitConfig == InitWith([mails |-> ConfigMails, time |-> MaxTime])

NextConfig ==
  \/ Quiet /\ \E p \in ConfigSends(now) : SendMail("ua", p)
  \/ SendDelivered
  \/ SendRejected
  \/ Quiet /\ \E p \in ConfigDrafts(now) : SaveDraft("ua", p)
  \/ Quiet /\ \E id \in Ids : DeleteMail("ua", id)
  \/ Quiet /\ \E id \in Ids : RestoreMail("ua", id, Some("scheduled"))
  \/ Quiet /\ \E r \in Runners : TickStart(r, "none")
  \/ \E r \in Runners : TickDelivered(r)
  \/ \E r \in Runners : TickRejected(r)
  \/ Quiet /\ Advance

SpecConfig == InitConfig /\ [][NextConfig]_vars

----------------------------------------------------------------------------
\* The mailer alone: calls of sendMail over sender identities, attachments
\* whose fetches end in every way, and every provider response.
Files == {<<>>, <<"f1">>, <<"f1", "f2">>, <<"f1", "f2", "f3">>}
FetchOutcomes == {"ok", "status404", "rejects"}
DeliverRequests ==
  [to : {"x"}, cc : {<<>>}, bcc : {<<>>}, subject : {"s1", ""},
   userFrom : {None, Some("a"), Some("b"), Some("N <a>")}, from : {None, Some("b")},
   attachments : {f \in Files : Len(f) <= MaxAttachments}]

InitMailer == InitWith([mails |-> 0, time |-> 0])

NextMailer ==
  \E o \in DeliverRequests :
    \E outcomes \in [DOMAIN o.attachments -> FetchOutcomes] :
      \E response \in ProviderResponses : Deliver(o, outcomes, response)

SpecMailer == InitMailer /\ [][NextMailer]_vars

----------------------------------------------------------------------------
\* Retries over time: scheduled mails of ua, the timer's runs with a
\* provider that fails or succeeds at each attempt, and a clock that runs
\* past the lookback window of the query.
RetryMails == 2
RetryTime == 7
RetrySends(t) ==
  [to : {"x"}, cc : {<<>>}, bcc : {<<>>}, subject : {"s1"},
   body : {"b1"}, scheduledAt : {Some(t + 1)}, draftId : {None}]

InitRetry == InitWith([mails |-> RetryMails, time |-> RetryTime]) /\ config.mailer

NextRetry ==
  \/ \E p \in RetrySends(now) : SendMail("ua", p)
  \/ \E r \in Runners : TickStart(r, "none")
  \/ \E r \in Runners : TickDelivered(r)
  \/ \E r \in Runners : TickRejected(r)
  \/ Advance

SpecRetry == InitRetry /\ [][NextRetry]_vars

----------------------------------------------------------------------------
\* The fan-out of the scheduler: scheduled mails of ua whose primary
\* recipient has an account or has none, with and without a cc that has one,
\* dispatched by the timer's runs.
DispatchMails == 3
DispatchSends(t) ==
  [to : {"b", "x"}, cc : {<<>>, <<"b">>}, bcc : {<<>>}, subject : {"s1"},
   body : {"b1"}, scheduledAt : {Some(t + 1)}, draftId : {None}]

InitDispatch == InitWith([mails |-> DispatchMails, time |-> MaxTime]) /\ config.mailer

NextDispatch ==
  \/ \E p \in DispatchSends(now) : SendMail("ua", p)
  \/ \E r \in Runners : TickStart(r, "none")
  \/ \E r \in Runners : TickDelivered(r)
  \/ \E r \in Runners : TickRejected(r)
  \/ Advance

SpecDispatch == InitDispatch /\ [][NextDispatch]_vars

----------------------------------------------------------------------------
\* The copies of one message: ua sends one mail to b, with or without a bcc
\* to itself, at once or scheduled; the sender's copy and the inbox copies
\* are then saved as drafts, deleted, restored and emptied from the trash by
\* their owners, and by the other account under the same ids.
CopyMails == 3
CopySends(t) ==
  [to : {"b"}, cc : {<<>>}, bcc : {<<>>, <<"a">>}, subject : {"s1"},
   body : {"b1"}, scheduledAt : {None, Some(t + 1)}, draftId : {None}]
CopyDrafts ==
  [id : {Some(i) : i \in Ids \ {0}}, to : {"b"}, cc : {<<>>}, bcc : {<<"x">>},
   subject : {"s2"}, body : {"b1"}, scheduledAt : {None}]

InitCopies == InitWith([mails |-> CopyMails, time |-> MaxTime]) /\ config.mailer

NextCopies ==
  \/ mails = <<>> /\ \E p \in CopySends(now) : SendMail("ua", p)
  \/ SendDelivered
  \/ SendRejected
  \/ \E u \in Users, p \in CopyDrafts : SaveDraft(u, p)
  \/ \E u \in Users, id \in Ids : DeleteMail(u, id)
  \/ \E u \in Users, id \in Ids : RestoreMail(u, id, None)
  \/ \E u \in Users : EmptyTrash(u)
  \/ \E r \in Runners : TickStart(r, "none")
  \/ \E r \in Runners : TickDelivered(r)
  \/ \E r \in Runners : TickRejected(r)
  \/ Advance

SpecCopies == InitCopies /\ [][NextCopies]_vars

----------------------------------------------------------------------------
\* The documents a step creates, and the documents it keeps as they were.
NewIds == (DOMAIN mails') \ (DOMAIN mails)
KeptAsIs(ids) == \A i \in ids : i \in DOMAIN mails' /\ mails'[i] = mails[i]

\* The request p asks for a date after the handler's current time.
AsksFuture(p) == \E s \in p.scheduledAt : s > now
Sendable(p) == p.to # "" /\ config.mailer

\* The draft a send names: a stored document of ua in folder drafts.
IsDraftOf(u, d) == d \in DOMAIN mails /\ mails[d].owner = u /\ mails[d].folder = "drafts"

\* C1: a send with a recipient and a configured mailer whose scheduledAt is
\* later than the current time creates exactly one document, owned by the
\* caller, with folder scheduled, isScheduled true and the requested
\* scheduledAt, answers 201, and starts no gateway call.
C1_FutureSendIsScheduled ==
  [][\A p \in BoundarySends(now) :
       (SendMail("ua", p) /\ Sendable(p) /\ AsksFuture(p))
       => /\ NewIds = {nextId}
          /\ mails'[nextId].owner = "ua"
          /\ mails'[nextId].folder = "scheduled"
          /\ mails'[nextId].isScheduled
          /\ mails'[nextId].scheduledAt = p.scheduledAt
          /\ KeptAsIs((DOMAIN mails) \ p.draftId)
          /\ req.pc = "idle" /\ req'.pc = "idle"
          /\ resp'.status = 201]_vars

\* C1 witness: a send answered 201 with a document scheduled for a later time.
C1_Witness ==
  /\ resp.op = "send" /\ resp.status = 201 /\ req.pc = "idle"
  /\ \E i \in resp.id : /\ i \in DOMAIN mails
                        /\ mails[i].folder = "scheduled"
                        /\ mails[i].isScheduled
                        /\ mails[i].scheduledAt = Some(now + 1)

\* C2: a send whose scheduledAt is absent, past or equal to the current time
\* starts exactly one gateway call and writes nothing before it returns; a
\* document with folder sent is created only by the step in which that call
\* has returned successfully, and a waiting handler starts no second call.
C2_DeliveryBeforeSentWrite ==
  [][/\ \A p \in BoundarySends(now) :
          (SendMail("ua", p) /\ Sendable(p) /\ ~AsksFuture(p))
          => (req.pc = "idle" /\ req'.pc = "delivering" /\ mails' = mails)
     /\ (\E i \in NewIds : mails'[i].folder = "sent")
          => (req.pc = "delivering" /\ req'.pc = "idle" /\ resp'.status = 201)
     /\ (req.pc = "delivering" /\ req' # req) => req'.pc = "idle"]_vars

\* C2 witness: the gateway call of an immediate send has returned and the
\* sender's copy is stored.
C2_Witness ==
  /\ resp.op = "send" /\ resp.status = 201 /\ req.pc = "idle"
  /\ \E i \in resp.id : i \in DOMAIN mails /\ mails[i].folder = "sent"

\* C3: the decision is the strict comparison scheduledAt > now: a send for
\* now or now - 1 goes to the gateway at once and, delivered, is stored as
\* sent; a send for now + 1 is stored as scheduled without a gateway call.
C3_StrictBoundary ==
  [][/\ \A p \in BoundarySends(now) :
          (SendMail("ua", p) /\ Sendable(p))
          => /\ p.scheduledAt \in {Some(now), Some(now - 1)}
                  => (req'.pc = "delivering" /\ mails' = mails)
             /\ p.scheduledAt = Some(now + 1)
                  => /\ req'.pc = "idle"
                     /\ NewIds = {nextId}
                     /\ mails'[nextId].folder = "scheduled"
     /\ (req.pc = "delivering" /\ req'.pc = "idle" /\ resp'.status = 201)
          => /\ nextId \in NewIds
             /\ mails'[nextId].folder = "sent"
             /\ ~mails'[nextId].isScheduled
             /\ mails'[nextId].scheduledAt = None]_vars

\* C3 witness: a send asking for exactly the current time is at the gateway.
C3_Witness == req.pc = "delivering" /\ req.scheduledAt = Some(now)

\* C4: when the gateway call of an immediate send fails the request answers
\* 502, and neither the start of the request nor its end writes the store.
C4_FailedSendWritesNothing ==
  [][/\ SendRejected
          => (resp'.op = "send" /\ resp'.status = 502
              /\ mails' = mails /\ nextId' = nextId)
     /\ (req.pc = "idle" /\ req'.pc = "delivering") => mails' = mails
     /\ (req.pc = "delivering" /\ req'.pc = "idle")
          => (resp'.status \in {201, 502}
              /\ (resp'.status = 502 => mails' = mails))]_vars

\* C4 witness: a send answered 502 over a store that holds documents.
C4_Witness ==
  resp.op = "send" /\ resp.status = 502 /\ DOMAIN mails # {}

\* C5: a send that names a stored draft of the caller removes it when the
\* mail is scheduled or delivered, and leaves it as it was when the delivery
\* fails and while the gateway call is in flight; a document disappears only
\* in a step that answers a send with 201.
C5_DraftRemovedOnSuccessOnly ==
  [][/\ \A p \in BoundarySends(now) : \A d \in p.draftId :
          (SendMail("ua", p) /\ Sendable(p) /\ IsDraftOf("ua", d))
          => IF AsksFuture(p) THEN d \notin DOMAIN mails' ELSE KeptAsIs({d})
     /\ \A d \in (IF req.pc = "delivering" THEN req.draftId ELSE {}) :
          IsDraftOf(req.user, d)
          => /\ SendDelivered => d \notin DOMAIN mails'
             /\ SendRejected => KeptAsIs({d})
     /\ (DOMAIN mails) \ (DOMAIN mails') # {}
          => (resp'.op = "send" /\ resp'.status = 201)]_vars

\* C5 witness: a send answered 201 and a document, the draft, is gone.
C5_Witness ==
  /\ resp.op = "send" /\ resp.status = 201
  /\ \E i \in 1 .. (nextId - 1) : i \notin DOMAIN mails

\* The accounts a send in flight addresses in to, cc or bcc.
Addressed ==
  LET rcpts == Recipients(req.to, req.cc, req.bcc)
  IN {u \in Users : \E k \in DOMAIN rcpts : ToLower(rcpts[k]) = Email(u)}

\* The inbox documents a step creates.
NewCopies == {i \in NewIds : mails'[i].folder = "inbox"}

\* C6: a delivered send creates inbox copies for exactly the local accounts
\* among its resolved addresses; the copy for the primary to address carries
\* the original cc (as the schema stores it), every copy for a cc- or
\* bcc-resolved address has empty cc, and every copy has empty bcc.
C6_FanOutCopies ==
  [][SendDelivered =>
       LET primary == IF FindUser(ToLower(req.to)) # {} THEN {nextId + 1} ELSE {}
       IN /\ {mails'[i].owner : i \in NewCopies} = Addressed
          /\ \A i \in primary : i \in NewCopies /\ mails'[i].cc = LowerList(req.cc)
          /\ \A i \in NewCopies \ primary : mails'[i].cc = <<>>
          /\ \A i \in NewCopies : mails'[i].bcc = <<>>]_vars

\* C7: the recipients of a delivered send are de-duplicated: every account
\* addressed in to, cc or bcc, however often, gets exactly one inbox copy.
C7_OneCopyPerAccount ==
  [][SendDelivered =>
       \A u \in Users :
         Cardinality({i \in NewCopies : mails'[i].owner = u})
           = IF u \in Addressed THEN 1 ELSE 0]_vars

\* C8: every stored document has isScheduled true exactly when its folder is
\* scheduled, and exactly when its scheduledAt is not null.
C8_ScheduledFlagsAgree ==
  \A i \in DOMAIN mails :
    /\ mails[i].isScheduled <=> mails[i].folder = "scheduled"
    /\ mails[i].folder = "scheduled" <=> mails[i].scheduledAt # None

\* The document id is in the caller's trash.
InTrash(u, id) == id \in DOMAIN mails /\ mails[id].owner = u /\ mails[id].folder = "trash"

\* C9: a restore of a document that is not in the caller's trash answers 404
\* and changes nothing; a restore of a trashed document succeeds, for every
\* allowed target folder, and a restore of the same id right after a
\* successful one answers 404.
C9_RestoreTwiceFails ==
  [][\A id \in Ids, f \in FolderInputs :
       RestoreMail("ua", id, f)
       => /\ ~InTrash("ua", id) => (resp'.status = 404 /\ mails' = mails)
          /\ InTrash("ua", id) => resp'.status = 200
          /\ (resp.op = "restore" /\ resp.status = 200 /\ resp.id = Some(id))
               => resp'.status = 404]_vars

\* The ids a summary reports as failed.
FailedIds(summary) == {summary.errors[j].mailId : j \in DOMAIN summary.errors}

\* C10: when a scheduler run ends, each document it loaded whose delivery
\* succeeded is in folder sent with isScheduled false and scheduledAt null,
\* and each whose delivery failed is still in folder scheduled with
\* isScheduled true; every run loads, and attempts, only documents that are
\* in folder scheduled at that time.
C10_TickConvergence ==
  [][\A r \in Runners :
       /\ (tick[r].pc = "loop" /\ tick'[r].pc = "idle")
            => /\ resp'.processed + resp'.failed = Len(tick[r].docs)
               /\ \A k \in DOMAIN tick[r].docs :
                    LET id == tick[r].docs[k].id
                    IN IF id \in FailedIds(resp')
                       THEN /\ mails'[id].folder = "scheduled"
                            /\ mails'[id].isScheduled
                            /\ mails'[id].scheduledAt # None
                       ELSE /\ mails'[id].folder = "sent"
                            /\ ~mails'[id].isScheduled
                            /\ mails'[id].scheduledAt = None
       /\ (tick[r].pc = "idle" /\ tick'[r].pc = "loop")
            => \A k \in DOMAIN tick'[r].docs :
                 /\ mails[tick'[r].docs[k].id].folder = "scheduled"
                 /\ mails[tick'[r].docs[k].id].isScheduled
       /\ (tick[r].pc = "loop" /\ tick'[r] # tick[r])
            => /\ mails[Attempted(r)].folder = "scheduled"
               /\ TickDelivered(r) => mails'[Attempted(r)].folder = "sent"
               /\ TickRejected(r) => mails' = mails]_vars

\* C10 witness: a run over two due documents ended with one delivered, now
\* sent, and one failed, still scheduled.
C10_Witness ==
  /\ resp.op = "processScheduled" /\ resp.processed = 1 /\ resp.failed = 1
  /\ \E i \in DOMAIN mails : mails[i].folder = "sent" /\ mails[i].scheduledAt = None
  /\ \E i \in FailedIds(resp) : mails[i].folder = "scheduled" /\ mails[i].isScheduled

\* The ids the results of a run report as failed once the step is taken.
ReportedAfter(r) ==
  FailedIds(IF tick'[r].pc = "idle" THEN resp' ELSE tick'[r])

\* C11: a document that an iteration of a run reports in errors was left
\* untouched by it: the iteration wrote nothing to the store (the document
\* keeps its folder, isScheduled and scheduledAt, and no inbox copy is
\* created) and the gateway did not accept the document's message.
C11_FailedIsUntouched ==
  [][\A r \in Runners :
       (tick[r].pc = "loop" /\ tick'[r] # tick[r]
        /\ Attempted(r) \in ReportedAfter(r) \ FailedIds(tick[r]))
       => /\ mails' = mails
          /\ dispatched' = dispatched]_vars

\* C12: a delete by the owner answers 200 and sets the document's folder to
\* trash whatever folder it was in, trash included, changing no other field
\* and no other document: a second delete finds the store as the first left it.
C12_DeleteToTrash ==
  [][\A id \in Ids :
       (DeleteMail("ua", id) /\ id \in DOMAIN mails /\ mails[id].owner = "ua")
       => /\ resp'.op = "delete" /\ resp'.status = 200 /\ resp'.id = Some(id)
          /\ DOMAIN mails' = DOMAIN mails
          /\ mails'[id] = [mails[id] EXCEPT !.folder = "trash"]
          /\ KeptAsIs((DOMAIN mails) \ {id})
          /\ mails[id].folder = "trash" => mails' = mails]_vars

\* C12 witness: a delete answered 200 for a document that was scheduled.
C12_Witness ==
  /\ resp.op = "delete" /\ resp.status = 200
  /\ \E i \in resp.id : mails[i].folder = "trash" /\ mails[i].isScheduled

\* The folder the spec gives a restore with the body's folder f.
RestoredTo(f) ==
  CASE f = Some("sent") -> "sent"
    [] f = Some("trash") -> "trash"
    [] f = Some("drafts") -> "drafts"
    [] f = Some("scheduled") -> "scheduled"
    [] OTHER -> "inbox"

\* C15: a restore of a document in the caller's trash answers 200 and sets
\* its folder to the supplied target when that is one of the allowed folders
\* and to inbox when it is absent or not allowed; nothing else of the
\* document, and so nothing of the folder it was trashed from, plays a part.
C15_RestoreTarget ==
  [][\A id \in Ids, f \in FolderInputs :
       (RestoreMail("ua", id, f) /\ InTrash("ua", id))
       => /\ resp'.op = "restore" /\ resp'.status = 200
          /\ DOMAIN mails' = DOMAIN mails
          /\ mails'[id] = [mails[id] EXCEPT !.folder = RestoredTo(f)]
          /\ KeptAsIs((DOMAIN mails) \ {id})]_vars

\* C15 witness: a document that was scheduled, then trashed, is restored and
\* is in inbox.
C15_Witness ==
  /\ resp.op = "restore" /\ resp.status = 200
  /\ \E i \in resp.id : mails[i].folder = "inbox" /\ mails[i].isScheduled

\* C13: emptyTrash of an owner removes exactly the documents that owner has
\* in trash, answers with their number as deletedCount, and keeps every
\* other document, of another owner or in another folder, as it was.
C13_EmptyTrashFrame ==
  [][\A u \in Users :
       (resp'.op = "emptyTrash" /\ EmptyTrash(u))
       => LET gone == {i \in DOMAIN mails : InTrash(u, i)}
          IN /\ DOMAIN mails' = (DOMAIN mails) \ gone
             /\ KeptAsIs((DOMAIN mails) \ gone)
             /\ resp'.op = "emptyTrash" /\ resp'.status = 200
             /\ resp'.deleted = Cardinality(gone)]_vars

\* C13 witness: an emptyTrash removed a document while a document of the
\* other owner is still in trash.
C13_Witness ==
  /\ resp.op = "emptyTrash" /\ resp.deleted = 1
  /\ \E i \in DOMAIN mails : mails[i].folder = "trash"

\* The caller u owns a stored document with the id the payload p names.
NamesOwn(u, p) == \E i \in p.id : i \in DOMAIN mails /\ mails[i].owner = u

\* C16: saveDraft without an id creates one document, of the caller, in
\* folder drafts; with an id of a document of the caller it rewrites that
\* document, which keeps its id and owner and is in folder drafts, and
\* creates none; with an id that matches no document of the caller it
\* answers 404 and writes nothing.
C16_SaveDraftUpsert ==
  [][\A u \in Users, p \in OwnerDrafts :
       (resp'.op = "saveDraft" /\ SaveDraft(u, p))
       => IF p.id = None THEN
            /\ resp'.status = 201 /\ resp'.id = Some(nextId)
            /\ NewIds = {nextId}
            /\ mails'[nextId].owner = u
            /\ mails'[nextId].folder = "drafts"
            /\ mails'[nextId].subject = p.subject
            /\ KeptAsIs(DOMAIN mails)
          ELSE IF NamesOwn(u, p) THEN
            /\ resp'.status = 200 /\ resp'.id = p.id
            /\ DOMAIN mails' = DOMAIN mails
            /\ \A i \in p.id : /\ mails'[i].owner = u
                               /\ mails'[i].folder = "drafts"
                               /\ mails'[i].subject = p.subject
            /\ KeptAsIs((DOMAIN mails) \ p.id)
          ELSE
            /\ resp'.status = 404 /\ resp'.id = None
            /\ mails' = mails /\ nextId' = nextId]_vars

\* C16 witness: a saveDraft with an id answered 200 and the document it
\* names is a draft with the text of the request.
C16_Witness ==
  /\ resp.op = "saveDraft" /\ resp.status = 200
  /\ \E i \in resp.id : mails[i].folder = "drafts" /\ mails[i].subject = "s2"

\* The requests of u that name the id: read, delete, restore, saveDraft.
ById(u, id) ==
  \/ GetMailById(u, id)
  \/ DeleteMail(u, id)
  \/ \E f \in OwnerFolders : RestoreMail(u, id, f)
  \/ \E p \in OwnerDrafts : p.id = Some(id) /\ SaveDraft(u, p)

\* C17: a request of u that names a document of another owner answers 404
\* with no document in the response and writes nothing, and an emptyTrash of
\* u keeps every document of another owner as it was.
C17_OwnerIsolation ==
  [][\A u \in Users : \A id \in DOMAIN mails :
       mails[id].owner # u
       => /\ (resp'.status = 404 /\ resp'.id = None /\ mails' = mails)
               \/ ~ById(u, id)
          /\ KeptAsIs({id}) \/ ~EmptyTrash(u)]_vars

\* C17 witness: a read answered 404 although documents of both owners are
\* stored, one of them in trash.
C17_Witness ==
  /\ resp.op = "getMail" /\ resp.status = 404
  /\ \A u \in Users : \E i \in DOMAIN mails : mails[i].owner = u
  /\ \E i \in DOMAIN mails : mails[i].folder = "trash"

\* The documents a step removes.
GoneIds == (DOMAIN mails) \ (DOMAIN mails')

CarriesSecret(h, b) == h = "good" \/ (h = "none" /\ b = "good")

\* C18: with a secret configured, a dispatch request that does not carry it
\* answers 401 and starts no run: nothing is loaded, delivered or written;
\* with no secret configured every request, whatever it carries, runs the
\* dispatch: it answers 200 at once when nothing is due and otherwise loads
\* the due documents into its loop.
C18_SecretGate ==
  [][\A r \in Callers, h \in Secrets, b \in Secrets :
       TickStart(r, CronSecret(h, b))
       => IF config.cronSecret /\ ~CarriesSecret(h, b) THEN
            /\ resp'.op = "processScheduled" /\ resp'.status = 401
            /\ mails' = mails /\ tick' = tick /\ dispatched' = dispatched
          ELSE IF DueIds(mails, now) = {} THEN
            /\ resp'.op = "processScheduled" /\ resp'.status = 200
            /\ mails' = mails /\ tick' = tick
          ELSE
            /\ tick'[r].pc = "loop"
            /\ {tick'[r].docs[k].id : k \in DOMAIN tick'[r].docs} = DueIds(mails, now)]_vars

\* C18 witness: with a secret configured and a document due, a request was
\* answered 401 and nothing has been delivered.
C18_Witness ==
  /\ config.cronSecret
  /\ resp.op = "processScheduled" /\ resp.status = 401
  /\ DueIds(mails, now) # {}
  /\ dispatched = <<>>

\* C19: with no provider configured a send with a recipient, for now or for
\* later, answers 500, writes nothing and starts no gateway call; and the
\* gateway accepts nothing: a run's iteration ends in the catch, the
\* document reported as failed and the store as it was.
C19_UnconfiguredFailsFast ==
  [][~config.mailer
     => /\ \A p \in ConfigSends(now) :
             (SendMail("ua", p) /\ p.to # "")
             => /\ resp'.op = "send" /\ resp'.status = 500
                /\ mails' = mails /\ nextId' = nextId
        /\ req'.pc = "idle"
        /\ dispatched' = dispatched
        /\ \A r \in Runners :
             (tick[r].pc = "loop" /\ tick'[r] # tick[r])
             => (mails' = mails /\ Attempted(r) \in ReportedAfter(r))]_vars

\* C19 witness: with no provider configured a send was answered 500 over a
\* store that holds a document.
C19_Witness ==
  /\ ~config.mailer
  /\ resp.op = "send" /\ resp.status = 500
  /\ DOMAIN mails # {}

\* C20: a send without a recipient answers 400, starts no gateway call and
\* writes nothing, with or without a configured provider, whatever its
\* scheduledAt and draftId.
C20_NoRecipientIs400 ==
  [][\A p \in ConfigSends(now) :
       (SendMail("ua", p) /\ p.to = "")
       => /\ resp'.op = "send" /\ resp'.status = 400 /\ resp'.id = None
          /\ mails' = mails /\ nextId' = nextId
          /\ req'.pc = "idle"
          /\ dispatched' = dispatched]_vars

\* C20 witness: a send was answered 400 while a draft of the caller, which
\* the request could name, is stored.
C20_Witness ==
  /\ resp.op = "send" /\ resp.status = 400
  /\ \E i \in DOMAIN mails : mails[i].folder = "drafts" /\ mails[i].owner = "ua"

\* C21: every message the mailer posts has as From the configured verified
\* sender, whatever sender identity the request carries; the identity given
\* as userFrom appears as the Reply-To address, and nowhere else.
C21_FixedFrom ==
  \A o \in outbox.options : \A m \in outbox.message :
    /\ m.From = [Email |-> "v", Name |-> "M"]
    /\ o.userFrom = Some("a") => m.ReplyTo = {[Email |-> "a", Name |-> "a"]}
    /\ o.userFrom = Some("b") => m.ReplyTo = {[Email |-> "b", Name |-> "b"]}
    /\ o.userFrom = Some("N <a>") => m.ReplyTo = {[Email |-> "a", Name |-> "N"]}
    /\ m.To = o.to /\ m.Cc = o.cc /\ m.Bcc = o.bcc

\* C21 witness: a message was posted with the verified sender as From and
\* the user's address a as Reply-To.
C21_Witness ==
  /\ outbox.posts = 1
  /\ \E o \in outbox.options : o.userFrom = Some("a")
  /\ \E m \in outbox.message :
       m.From.Email = "v" /\ \E rt \in m.ReplyTo : rt.Email = "a"

\* C22: whatever subset of the attachments' fetches fails, the mailer makes
\* exactly one POST, the call does not end in an error of the fetches, and
\* the message carries exactly the attachments whose fetch succeeded, with
\* the file's content.
C22_FailedFetchesDropped ==
  \A o \in outbox.options :
    config.mailer
    => /\ outbox.posts = 1
       /\ outbox.error \subseteq {"http4xx", "http5xx", "network"}
       /\ \A m \in outbox.message :
            LET ok == {k \in DOMAIN o.attachments : outbox.fetches[k] = "ok"}
            IN /\ Len(m.Attachments) = Cardinality(ok)
               /\ \A k \in DOMAIN m.Attachments :
                    /\ m.Attachments[k].Content = "file"
                    /\ \E j \in ok : m.Attachments[k].Filename = o.attachments[j]

\* A document that is in folder scheduled after the step and was not before.
EntersScheduled ==
  {i \in DOMAIN mails' :
     mails'[i].folder = "scheduled" /\ (i \in DOMAIN mails => mails[i].folder # "scheduled")}

\* C23: a document comes to folder scheduled only as the new document of a
\* send whose scheduledAt is in the future, and a saveDraft, with or without
\* a scheduledAt, leaves its document in folder drafts: no saveDraft, delete
\* or restore moves a document to scheduled.
C23_ScheduledOnlyBySend ==
  [][/\ \A i \in EntersScheduled :
          /\ i \in NewIds
          /\ \E p \in SendInputs(now) : AsksFuture(p) /\ SendMail("ua", p)
     /\ \A p \in DraftInputs(now) :
          (resp'.op = "saveDraft" /\ SaveDraft("ua", p))
          => \A i \in resp'.id : mails'[i].folder = "drafts"]_vars

\* The results of run r once the step is taken: the summary answered when
\* the run ended, the counters of the loop otherwise.
ResultsAfter(r) == IF tick'[r].pc = "idle" THEN resp' ELSE tick'[r]

\* C24: every iteration of a run, delivered or failed, goes on to the next
\* loaded document, and the run ends only after the last one; after the
\* iteration of the k-th document processed + failed = k and errors has
\* failed entries, each naming a loaded document whose iteration failed, the
\* last one the document of this iteration when it failed.  So the summary
\* has processed + failed = the number of documents loaded.
C24_TickIsolation ==
  [][\A r \in Runners :
       (tick[r].pc = "loop" /\ tick'[r] # tick[r])
       => LET t == ResultsAfter(r)
              k == tick[r].i
          IN /\ IF k < Len(tick[r].docs)
                THEN /\ tick'[r].pc = "loop"
                     /\ tick'[r].i = k + 1
                     /\ tick'[r].docs = tick[r].docs
                ELSE /\ tick'[r].pc = "idle"
                     /\ resp'.op = "processScheduled" /\ resp'.status = 200
                     /\ resp'.processed + resp'.failed = Len(tick[r].docs)
             /\ t.processed + t.failed = k
             /\ Len(t.errors) = t.failed
             /\ \A j \in DOMAIN t.errors :
                  \E n \in 1 .. k : t.errors[j].mailId = tick[r].docs[n].id
             /\ \A i, j \in DOMAIN t.errors : t.errors[i].mailId = t.errors[j].mailId => i = j
             /\ TickRejected(r)
                  => /\ t.failed = tick[r].failed + 1 /\ t.processed = tick[r].processed
                     /\ t.errors[Len(t.errors)].mailId = Attempted(r)
             /\ (TickDelivered(r) /\ Attempted(r) \in DOMAIN mails)
                  => /\ t.processed = tick[r].processed + 1 /\ t.failed = tick[r].failed
                     /\ t.errors = tick[r].errors]_vars

\* C24 witness: a run over two documents ended with the first one failed
\* and reported, and the second one delivered after it.
C24_Witness ==
  /\ resp.op = "processScheduled" /\ resp.processed = 1 /\ resp.failed = 1
  /\ \E i \in DOMAIN dispatched :
       /\ i > resp.errors[1].mailId
       /\ mails[i].folder = "sent"

\* The documents the run r has loaded once the step is taken.
LoadedAfter(r) == {tick'[r].docs[k].id : k \in DOMAIN tick'[r].docs}

\* C25: a document whose delivery the last run reported as failed and that
\* is still in folder scheduled, with its flag and its date, is loaded for
\* another attempt by every run that starts, however long ago its date is.
C25_RetriedByEveryTick ==
  [][\A r \in Runners :
       (tick[r].pc = "idle" /\ TickStart(r, "none"))
       => \A i \in DOMAIN mails :
            ( /\ resp.op = "processScheduled"
              /\ i \in FailedIds(resp)
              /\ mails[i].folder = "scheduled"
              /\ mails[i].isScheduled
              /\ \E at \in mails[i].scheduledAt : at <= now )
            => /\ tick'[r].pc = "loop"
               /\ i \in LoadedAfter(r)]_vars

\* C26: an iteration of a run that delivers a scheduled document creates
\* exactly the inbox copies that the fan-out of an interactive send creates
\* for the document's from, to, cc, bcc, subject and body.
C26_SameFanOut ==
  [][\A r \in Runners :
       (TickDelivered(r) /\ Attempted(r) \in DOMAIN mails)
       => LET m == mails[Attempted(r)]
              copies == SendFanOut(m.from, m.to, m.cc, m.bcc, m.subject, m.body)
          IN /\ NewIds = nextId .. (nextId + Len(copies) - 1)
             /\ \A k \in DOMAIN copies : mails'[nextId + k - 1] = MailDoc(copies[k])]_vars

\* C27: a document that a run has delivered and saved as sent stays as it
\* is: no later step changes it or delivers it again, no run that starts
\* loads it, and no iteration that creates inbox copies is an iteration of
\* that document.
C27_SentIsFinal ==
  [][\A i \in DOMAIN mails :
       (mails[i].folder = "sent" /\ i \in DOMAIN dispatched)
       => /\ i \in DOMAIN mails' /\ mails'[i] = mails[i]
          /\ dispatched'[i] = dispatched[i]
          /\ \A r \in Runners :
               /\ (tick[r].pc = "idle" /\ tick'[r].pc = "loop") => i \notin LoadedAfter(r)
               /\ (tick[r].pc = "loop" /\ tick'[r] # tick[r]) => Attempted(r) # i]_vars

\* C27 witness: a run is in its loop with a due document loaded, and does
\* not hold the document that an earlier run delivered, once, and saved as
\* sent together with its inbox copy.
C27_Witness ==
  \E i \in DOMAIN dispatched :
    /\ mails[i].folder = "sent" /\ dispatched[i] = 1
    /\ \E j \in DOMAIN mails : mails[j].folder = "inbox"
    /\ \E r \in Runners :
         /\ tick[r].pc = "loop"
         /\ \A k \in DOMAIN tick[r].docs : tick[r].docs[k].id # i

\* C28: an iteration of a run never overwrites a delete that succeeded after
\* the run loaded the document: a document that is in trash when the
\* iteration saves is in trash afterwards.
C28_DeleteNotOverwritten ==
  [][\A r \in Runners :
       (tick[r].pc = "loop" /\ tick'[r] # tick[r])
       => \A i \in DOMAIN mails :
            mails[i].folder = "trash"
            => i \in DOMAIN mails' /\ mails'[i].folder = "trash"]_vars

\* C29: the provider accepts the message of a scheduled document at most
\* once, whichever runs, of the timer and of the endpoint, are under way.
C29_DeliveredAtMostOnce ==
  \A i \in DOMAIN dispatched : dispatched[i] <= 1

\* C30: a run that starts does not load a document that the last run
\* reported as failed with a 4xx answer of the provider, and loads a
\* document, still scheduled and due, that it reported as failed with a
\* network error.
C30_PermanentNotRetried ==
  [][\A r \in Runners :
       (tick[r].pc = "idle" /\ resp.op = "processScheduled" /\ TickStart(r, "none"))
       => \A j \in DOMAIN resp.errors :
            LET i == resp.errors[j].mailId
            IN /\ resp.errors[j].error = "http4xx" => i \notin LoadedAfter(r)
               /\ (resp.errors[j].error = "network" /\ i \in DueIds(mails, now))
                    => i \in LoadedAfter(r)]_vars

\* The documents whose scheduledAt is later than the current time.
NotYetDue == {i \in DOMAIN mails : \E s \in mails[i].scheduledAt : s > now}

\* C31: every document a run loads has a scheduledAt that is not later than
\* the time of the query, so has every document an iteration attempts; and a
\* step of a run, its query or an iteration, leaves every document whose
\* scheduledAt is later than the current time as it is, undelivered.
C31_NoEarlyDelivery ==
  [][\A r \in Runners :
       /\ (tick[r].pc = "idle" /\ tick'[r].pc = "loop")
            => \A i \in LoadedAfter(r) :
                 \E s \in mails[i].scheduledAt : s <= now
       /\ (tick[r].pc = "loop" /\ tick'[r] # tick[r])
            => /\ \E s \in tick[r].docs[tick[r].i].doc.scheduledAt : s <= now
               /\ Attempted(r) \notin NotYetDue
       /\ (tick'[r] # tick[r])
            => \A i \in NotYetDue :
                 /\ i \in DOMAIN mails' /\ mails'[i] = mails[i]
                 /\ i \notin LoadedAfter(r)
                 /\ i \notin DOMAIN dispatched'
                      \/ (i \in DOMAIN dispatched /\ dispatched'[i] = dispatched[i])]_vars

\* C31 witness: a run has delivered a due document while another document,
\* scheduled for later than the current time, is still in folder scheduled
\* with its date, undelivered.
C31_Witness ==
  /\ resp.op = "processScheduled" /\ resp.processed = 1
  /\ \E i \in DOMAIN dispatched : mails[i].folder = "sent"
  /\ \E j \in NotYetDue :
       /\ mails[j].folder = "scheduled" /\ mails[j].isScheduled
       /\ j \notin DOMAIN dispatched

\* The documents whose scheduledAt is more than the lookback window before
\* the current time.
Stale == {i \in DOMAIN mails : \E s \in mails[i].scheduledAt : s < now - Lookback}

\* The documents a run that is in its loop has loaded.
Held == UNION {{tick[r].docs[k].id : k \in DOMAIN tick[r].docs} : r \in Runners}

\* C32: a document whose scheduledAt is more than five minutes before the
\* current time, and that no run under way had loaded before, is loaded by
\* no run that starts and is left as it is, undelivered, by every step: it
\* stays in folder scheduled.  (The clock only moves on, so this is so for
\* every later run too.)
C32_LookbackWindow ==
  [][\A i \in Stale \ Held :
       /\ i \in DOMAIN mails' /\ mails'[i] = mails[i]
       /\ i \in DOMAIN dispatched' => (i \in DOMAIN dispatched /\ dispatched'[i] = dispatched[i])
       /\ \A r \in Runners : i \notin LoadedAfter(r)]_vars

\* C32 witness: a run has started and loaded a due document, and has not
\* loaded a document with an earlier scheduledAt, more than five minutes
\* ago, that is in folder scheduled, undelivered.
C32_Witness ==
  \E i \in Stale \ Held :
    /\ mails[i].folder = "scheduled" /\ mails[i].isScheduled
    /\ i \notin DOMAIN dispatched
    /\ \E r \in Runners :
         /\ tick[r].pc = "loop" /\ Len(tick[r].docs) = 1
         /\ \E s \in mails[i].scheduledAt, d \in tick[r].docs[1].doc.scheduledAt : s < d

\* The drafts with schedule intent: in folder drafts with isScheduled true
\* and a scheduledAt, as saveDraft stores them.
ScheduledDrafts ==
  {i \in DOMAIN mails :
     mails[i].folder = "drafts" /\ mails[i].isScheduled /\ mails[i].scheduledAt # None}

\* C33: no step of a run, its query or an iteration, loads, changes or
\* delivers a draft with schedule intent, whether its scheduledAt has
\* passed or not.
C33_DraftsNotDispatched ==
  [][\A r \in Runners :
       (tick'[r] # tick[r])
       => \A i \in ScheduledDrafts :
            /\ i \in DOMAIN mails' /\ mails'[i] = mails[i]
            /\ i \notin LoadedAfter(r)
            /\ i \in DOMAIN dispatched'
                 => (i \in DOMAIN dispatched /\ dispatched'[i] = dispatched[i])]_vars

\* C33 witness: a run is in its loop over a due document that it loaded
\* while a draft with schedule intent, due no later than that document, was
\* in the store; the run did not load the draft.
C33_Witness ==
  \E i \in ScheduledDrafts \ Held :
    \E r \in Runners :
      /\ tick[r].pc = "loop"
      /\ \E s \in mails[i].scheduledAt, d \in tick[r].docs[1].doc.scheduledAt : s <= d

\* C34: a step of a send, on the scheduled path or after the delivery of the
\* immediate path, removes at most one document, and only a document of the
\* caller that is in folder drafts.
C34_SendRemovesOnlyDrafts ==
  [][(resp'.op = "send" /\ ((\E p \in SendInputs(now) : SendMail("ua", p)) \/ SendDelivered))
       => /\ Cardinality(GoneIds) <= 1
          /\ \A i \in GoneIds : mails[i].owner = "ua" /\ mails[i].folder = "drafts"]_vars

\* C35: every stored document whose from is not the address of its owner
\* has an empty bcc.
C35_BccPrivacy ==
  \A i \in DOMAIN mails :
    mails[i].from # Email(mails[i].owner) => mails[i].bcc = <<>>

\* C35 witness: the sender's copy of a message carries its bcc, the message
\* is delivered, and the inbox copy of the other account, whose from is the
\* sender's address, has none.
C35_Witness ==
  /\ \E i \in DOMAIN mails :
       mails[i].owner = "ua" /\ mails[i].folder = "sent" /\ mails[i].bcc # <<>>
  /\ \E j \in DOMAIN mails :
       mails[j].owner = "ub" /\ mails[j].from = "a" /\ mails[j].bcc = <<>>

\* The documents that are not the document id of u.
OtherThan(u, id) == {i \in DOMAIN mails : i # id \/ mails[i].owner # u}

\* C36: a delete, a restore or a saveDraft of u under the id of one copy
\* leaves every other stored document, and every document of another owner,
\* present and unchanged; an emptyTrash of u leaves every document of
\* another owner, and every document of u outside trash, present and
\* unchanged.
C36_CopiesIndependent ==
  [][\A u \in Users :
       /\ \A id \in Ids :
            \/ ~ \/ resp'.op = "delete" /\ DeleteMail(u, id)
                 \/ resp'.op = "restore" /\ RestoreMail(u, id, None)
                 \/ resp'.op = "saveDraft"
                      /\ \E p \in CopyDrafts : p.id = Some(id) /\ SaveDraft(u, p)
            \/ KeptAsIs(OtherThan(u, id))
       /\ (resp'.op = "emptyTrash" /\ EmptyTrash(u))
            => KeptAsIs({i \in DOMAIN mails :
                           mails[i].owner # u \/ mails[i].folder # "trash"})]_vars

\* C36 witness: of a delivered message with two inbox copies, the copy of ub
\* was rewritten as a draft and the inbox copy of ua was removed from the
\* trash, while the sender's copy is as it was stored.
C36_Witness ==
  /\ 1 \in DOMAIN mails /\ mails[1].folder = "sent" /\ mails[1].bcc = <<"a">>
  /\ \E j \in DOMAIN mails : mails[j].owner = "ub" /\ mails[j].folder = "drafts"
  /\ nextId = 4 /\ Cardinality(DOMAIN mails) = 2

\* C37: no step changes the owner of a stored document: a document that is
\* stored before and after the step has the same owner, and an id is given
\* to one document only.
C37_OwnerNeverChanges ==
  [][/\ \A i \in (DOMAIN mails) \cap (DOMAIN mails') : mails'[i].owner = mails[i].owner
     /\ \A i \in NewIds : i >= nextId]_vars

\* C37 witness: a scheduled document of ua was dispatched and is sent, the
\* inbox copy of ub was rewritten by a saveDraft, and a restore has
\* succeeded: both documents have the owner they were created with.
C37_Witness ==
  /\ 1 \in DOMAIN dispatched /\ 1 \in DOMAIN mails
  /\ mails[1].folder = "sent" /\ mails[1].owner = "ua"
  /\ 2 \in DOMAIN mails /\ mails[2].owner = "ub" /\ mails[2].subject = "s2"
  /\ resp.op = "restore" /\ resp.status = 200

\* The stored documents that the step keeps and moves to another folder.
Moved == {i \in (DOMAIN mails) \cap (DOMAIN mails') : mails'[i].folder # mails[i].folder}

\* C38: a document in folder sent or inbox moves only to trash, in a delete;
\* a document in folder scheduled moves only to sent, in an iteration of a
\* run that delivered it, or to trash, in a delete; and no document in sent,
\* inbox, scheduled or trash moves to drafts.
C38_LifecycleTable ==
  [][\A i \in Moved :
       /\ mails[i].folder \in {"sent", "inbox"}
            => mails'[i].folder = "trash" /\ resp'.op = "delete"
       /\ mails[i].folder = "scheduled"
            => \/ mails'[i].folder = "trash" /\ resp'.op = "delete"
               \/ /\ mails'[i].folder = "sent"
                  /\ \E r \in Runners : TickDelivered(r) /\ Attempted(r) = i
       /\ mails[i].folder = "trash" => mails'[i].folder # "drafts"]_vars

====
